---- MODULE Spec2Model ----
(***************************************************************************)
(* A model of the chat-room server (src/src/server.py) and of its paired   *)
(* client (src/src/client.py).                                             *)
(*                                                                         *)
(* Server: one acceptor thread (accept_connections), one operator-console  *)
(* thread (server_input_handler), the main thread (run, which calls        *)
(* shutdown when it leaves), and one session thread per admitted           *)
(* connection (handle_client).  Shared state is the registry self.clients, *)
(* the flag self.is_running and the two non-reentrant locks.               *)
(*                                                                         *)
(* A step of the model starts where a thread can be held up (accept, recv, *)
(* input, the acquisition of a lock, a round of an iteration over the      *)
(* registry) and runs to the next such place.  What a thread does after    *)
(* it was released (a loop test, a close, a thread start) is part of the   *)
(* step.                                                                   *)
(*                                                                         *)
(* Client: the main thread of ChatClient.run (connect, authenticate, the   *)
(* interactive loop, disconnect) and its receive thread.                   *)
(*                                                                         *)
(* Strings are sequences of tokens: a token is a word of letters/digits,   *)
(* or one of the one-character tokens " ", "_" and "/".                    *)
(***************************************************************************)
EXTENDS Integers, Sequences, FiniteSets, TLC

(***************************************************************************)
(* Bounds of the model.                                                    *)
(***************************************************************************)
\* connections that ever reach the listening socket
NumConns == 3
\* ServerConfig.MAX_CLIENTS (5 at src/src/server.py:65), scaled down so that
\* the capacity is reached with NumConns connections
MAX_CLIENTS == 2
\* events that leave the plain run, over the whole run.  In the plain run every
\* client submits PlainCredential and PlainNickname, sends no line, and closes
\* when it pleases; no write to an open socket raises; nothing is typed on the
\* console.  An event is one of: another credential or nickname, a handshake
\* that breaks off, a line of an admitted client whose flag is up, a write to
\* an open socket that raises, does not return or takes a part of the line
\* only, a command typed on the console.
MaxEvents == 1

Conns == 1 .. NumConns
Console == NumConns + 1
Main == NumConns + 2
Threads == Conns \cup {Console, Main}
\* the recipient of what safe_print writes
Stdout == 0
\* the server's end of a session socket: what a recv of handle_client returned
Inbox == 0 - 1

(***************************************************************************)
(* Strings.                                                                *)
(***************************************************************************)
WS == " "

RECURSIVE LStrip(_)
LStrip(s) == IF s # <<>> /\ Head(s) = WS THEN LStrip(Tail(s)) ELSE s

RECURSIVE RStrip(_)
RStrip(s) ==
    IF s # <<>> /\ s[Len(s)] = WS THEN RStrip(SubSeq(s, 1, Len(s) - 1)) ELSE s

\* str.strip()
Strip(s) == RStrip(LStrip(s))

\* str.isalnum(): non-empty and every character a letter or a digit
IsAlnum(s) == s # <<>> /\ \A i \in 1 .. Len(s) : s[i] \notin {WS, "_", "/"}

\* a byte sequence that is not valid UTF-8, as one token
BadByte == "<ff>"

\* bytes.decode(ServerConfig.ENCODING) returns
Decodes(data) == \A i \in 1 .. Len(data) : data[i] # BadByte

\* str.startswith('/')
StartsWithSlash(s) == s # <<>> /\ Head(s) = "/"

\* the secret typed at setup_server
RoomPasswords == { <<"pw">> }
\* what a connecting client may submit as credential
Credentials == { <<"pw">>, <<"pw", WS>>, <<"bad">> }
\* what a connecting client may submit as nickname
NickInputs == { <<"al">>, <<"al", "_", "x">>, <<>>, <<WS>>, <<"al", "/">>,
                [i \in 1 .. 21 |-> "a"] }
\* what the clients of the plain run submit
PlainCredential == <<"pw">>
PlainNickname == <<"al">>
\* names the operator may type after /kick
KickNames == { <<"al">>, <<"zed">> }
\* lines a client may send once admitted
ChatLines == { <<"hi">>, <<"/", "quit">>, <<"/", "users">>, <<"/", "zzz">>, <<WS>>,
               <<"/", "help">>, <<"/", "time">>, <<BadByte>> }

\* f"User_{int(time.time()) % 10000}": the clock is read as 7
Placeholder == <<"User", "_", "7">>
SystemLabel == <<"SYS">>
AdminLabel == <<"ADMIN">>

NoCred == <<"(none)">>
\* socket timeouts: no timeout (settimeout(None), the state of a fresh socket)
\* and the 30 seconds of client_socket.settimeout(30)
NoTimeout == <<>>
AuthTimeout == <<30>>
NoMsg == [kind |-> "none", about |-> 0, sender |-> <<>>, body |-> <<>>]

\* format_message: the display line as (sender, body); the timestamp prefix is
\* the same for every recipient of one call and is left out.  kind and about
\* tell which call made the line and which connection it is about.
format_message(kind, about, sender, content) ==
    [kind |-> kind, about |-> about, sender |-> Strip(sender), body |-> Strip(content)]

\* a protocol marker, sent raw
Marker(name) == [kind |-> name, about |-> 0, sender |-> <<>>, body |-> <<>>]

\* client_socket.send("PASSWORD_REQUEST".encode(...))
PasswordRequestMarker == Marker("PASSWORD_REQUEST")
\* the marker that opens the handshake, sent where SERVER_FULL belongs
HandshakeMarker == Marker("PASSWORD_REQUEST")
\* client_socket.send("SERVER_FULL".encode(...))
ServerFullMarker == Marker("SERVER_FULL")

\* data = client_connection.socket.recv(...): the line the session thread of
\* client_id got
Heard(client_id, data) ==
    {[to |-> Inbox, msg |-> [kind |-> "line", about |-> client_id, sender |-> <<>>,
                             body |-> data]]}

\* safe_print of kick_user: what the console is told
Report(kind, username) ==
    {[to |-> Stdout, msg |-> [kind |-> kind, about |-> 0, sender |-> <<>>,
                              body |-> username]]}

VARIABLES
    room_password,   \* self.room_password
    is_running,      \* self.is_running
    server_socket,   \* "open" | "closed": the listening socket
    clients,         \* the keys of self.clients
    entries,         \* the entry table of the dict self.clients, in insertion order
    message_lock,    \* the set of threads holding self.message_lock (at most one)
    clients_lock,    \* the set of threads holding self.clients_lock (at most one)
    sock,            \* per connection: "none" | "open" | "closed" | "dropped"
    is_active,       \* ClientConnection.is_active
    nickname,        \* ClientConnection.nickname
    acc,             \* the acceptor thread: [pc, c, timeout]; timeout is the
                     \* timeout set on the socket of the handshake in progress
    pc,              \* program counter of every other server thread
    frame,           \* per thread: the locals of its broadcast / iteration
    used,            \* how many of the MaxEvents events have happened
    wire,            \* what the last step wrote, a set of [to, msg], and (to
                     \* Inbox) the line it read from a session socket
    credOf,          \* history: per connection, the credential it submitted
    hist,            \* history: per connection, counters and flags of its lifetime
    client           \* the client program (src/src/client.py)

server_vars == << room_password, is_running, server_socket, clients, entries,
                  message_lock, clients_lock, sock, is_active, nickname, acc,
                  pc, frame, used, wire, credOf, hist >>

vars == << server_vars, client >>

\* full: accepted while the registry was at capacity; credread: a credential was
\* read from it; answer: the reply to the credential that was written;
\* inserts / removals: registry insertions and removals that took effect;
\* departs: departure broadcasts called for it; log: the events of its
\* handshake in the order in which the acceptor performed them, each with the
\* data read ("fault" is a send or recv that raised or timed out); timeout:
\* the timeout its socket had when the handshake handed it to the session
NoHist == [ full |-> FALSE, credread |-> FALSE, answer |-> "none", inserts |-> 0,
            removals |-> 0, departs |-> 0, log |-> <<>>, timeout |-> NoTimeout ]

\* delivered / failed: the recipients whose write succeeded / raised in this
\* pass; atCall: the registry when the call was made; aborted: the pass was left
\* by an exception
EmptyFrame == [ msg |-> NoMsg, excl |-> 0, ret |-> "none", exc |-> "none",
                pos |-> 0, len |-> 0, used |-> 0, todo |-> <<>>,
                atCall |-> {}, delivered |-> {}, failed |-> {},
                aborted |-> FALSE, at |-> 0 ]

(***************************************************************************)
(* ClientConnection.send_message and close.                                *)
(***************************************************************************)
\* what socket.send can do: a write to a closed socket always raises; a write
\* to an open one succeeds or raises (the peer is gone)
SendOutcomes(c) ==
    IF sock[c] # "open" THEN {FALSE}
    ELSE IF used < MaxEvents THEN {TRUE, FALSE} ELSE {TRUE}

\* a raising write to an open socket is one of the MaxEvents
UsedAfter(u, c, ok) == IF ~ok /\ sock[c] = "open" THEN u + 1 ELSE u

\* a send that reaches every connection
WrittenToAll(c, m, ok) == IF ok THEN {[to |-> d, msg |-> m] : d \in Conns} ELSE {}

\* socket.send: the bytes written when it does not raise
Written(c, m, ok) == IF ok THEN {[to |-> c, msg |-> m]} ELSE {}

\* self.socket.send(encoded_message) returns after it has taken only a part of
\* the bytes (the count it returns is not looked at): what reaches the peer
SentPart(m) == [m EXCEPT !.body = SubSeq(@, 1, Len(@) - 1)]

\* a send_message that leaves the flag alone
ActiveKept(c, ok) == is_active

\* send_message: is_active is cleared when the write raises
ActiveAfter(c, ok) == IF ok THEN is_active ELSE [is_active EXCEPT ![c] = FALSE]

(***************************************************************************)
(* The registry: a Python dict.  Its iterator remembers the size of the    *)
(* dict when it was created (used), how many items are still expected      *)
(* (len) and its position in the entry table (pos); next() raises          *)
(* RuntimeError when the size differs, or when an item turns up after len  *)
(* items were returned.                                                    *)
(***************************************************************************)
\* the mistaken test: one connection more than the capacity gets in
OverCapacity == Cardinality(clients) > MAX_CLIENTS

\* len(self.clients) >= ServerConfig.MAX_CLIENTS
AtCapacity == Cardinality(clients) >= MAX_CLIENTS

\* a removal that removes nothing
keep_client(client_id) == clients

\* remove_client: del self.clients[client_id] when present
remove_client(client_id) == clients \ {client_id}

NextIndex(pos) ==
    LET live == { i \in (pos + 1) .. Len(entries) : entries[i] \in clients }
    IN  IF live = {} THEN 0 ELSE CHOOSE i \in live : \A j \in live : i <= j

NewIterator(f) == [f EXCEPT !.pos = 0, !.len = Cardinality(clients),
                            !.used = Cardinality(clients)]

IterNext(f) ==
    IF Cardinality(clients) # f.used THEN [kind |-> "error", idx |-> 0, id |-> 0]
    ELSE LET i == NextIndex(f.pos)
         IN  IF i = 0 THEN [kind |-> "stop", idx |-> 0, id |-> 0]
             ELSE IF f.len = 0 THEN [kind |-> "error", idx |-> 0, id |-> 0]
             ELSE [kind |-> "item", idx |-> i, id |-> entries[i]]

Advance(f, i) == [f EXCEPT !.pos = i, !.len = @ - 1]

(***************************************************************************)
(* Where a thread goes on after a call returned or raised.                 *)
(***************************************************************************)
\* "loop" is the test of handle_client's loop, "while client_connection.is_active
\* and self.is_running"; "c_loop" is that of the console, "while self.is_running"
Resume(t, label, active, running) ==
    IF label = "loop" THEN (IF active[t] /\ running THEN "recv" ELSE "t_remove")
    ELSE IF label = "c_loop" THEN (IF running THEN "input" ELSE "done")
    ELSE label

(***************************************************************************)
(* broadcast_message(sender, message, exclude_client), run by thread t.    *)
(***************************************************************************)
\* a pass that leaves nobody out
NeverExcluded(client_id, exclude_client) == FALSE

\* if client_id == exclude_client: continue
Excluded(client_id, exclude_client) == client_id = exclude_client

\* the call: "if not self.clients: return", then format_message; the caller
\* resumes at ret when the call returns and at exc when it raises.  reg, active
\* and running are the registry and the flags as the calling step leaves them.
CallBroadcast(t, m, exclude_client, ret, exc, reg, active, running) ==
    IF reg = {}
    THEN /\ pc' = [pc EXCEPT ![t] = Resume(t, ret, active, running)]
         /\ frame' = [frame EXCEPT ![t] = EmptyFrame]
    ELSE /\ pc' = [pc EXCEPT ![t] = "b_lock"]
         /\ frame' = [frame EXCEPT ![t] =
                [EmptyFrame EXCEPT !.msg = m, !.excl = exclude_client,
                                   !.ret = ret, !.exc = exc, !.atCall = reg]]

\* with self.message_lock: ... for client_id, client_conn in self.clients.items()
BroadcastLock(t) ==
    /\ pc[t] = "b_lock"
    /\ message_lock = {}
    /\ message_lock' = {t}
    /\ frame' = [frame EXCEPT ![t] = NewIterator(@)]
    /\ pc' = [pc EXCEPT ![t] = "b_iter"]
    /\ wire' = {}
    /\ UNCHANGED << room_password, is_running, server_socket, clients, entries,
                    clients_lock, sock, is_active, nickname, acc, used, credOf,
                    hist, client >>

\* the frame of a pass that RuntimeError has left: what the traceback shows
Raised(f) ==
    [EmptyFrame EXCEPT !.msg = f.msg, !.excl = f.excl, !.atCall = f.atCall,
                       !.delivered = f.delivered, !.aborted = TRUE]

\* one round of the for loop: next() and the loop body.  RuntimeError leaves the
\* with block and the call; StopIteration with nothing to remove ends the call.
\* The send of the loop body writes the whole line, raises, or writes a part of
\* the line and returns, which send_message takes for success.
BroadcastIter(t) ==
    /\ pc[t] = "b_iter"
    /\ LET f == frame[t]
           r == IterNext(f)
       IN  CASE r.kind = "error" ->
                    /\ message_lock' = {}
                    /\ pc' = [pc EXCEPT ![t] = Resume(t, f.exc, is_active, is_running)]
                    /\ frame' = [frame EXCEPT ![t] = Raised(f)]
                    /\ wire' = {}
                    /\ UNCHANGED << is_active, used >>
             [] r.kind = "stop" /\ f.todo = <<>> ->
                    /\ message_lock' = {}
                    /\ pc' = [pc EXCEPT ![t] = Resume(t, f.ret, is_active, is_running)]
                    /\ frame' = [frame EXCEPT ![t] = EmptyFrame]
                    /\ wire' = {}
                    /\ UNCHANGED << is_active, used >>
             [] r.kind = "stop" /\ f.todo # <<>> ->
                    /\ pc' = [pc EXCEPT ![t] = "b_prune"]
                    /\ wire' = {}
                    /\ UNCHANGED << message_lock, frame, is_active, used >>
             [] r.kind = "item" /\ Excluded(r.id, f.excl) ->
                    /\ frame' = [frame EXCEPT ![t] = Advance(f, r.idx)]
                    /\ wire' = {}
                    /\ UNCHANGED << message_lock, pc, is_active, used >>
             [] r.kind = "item" /\ ~Excluded(r.id, f.excl) /\ ~is_active[r.id] ->
                    /\ frame' = [frame EXCEPT ![t] =
                                   [Advance(f, r.idx) EXCEPT !.todo = Append(@, r.id)]]
                    /\ wire' = {}
                    /\ UNCHANGED << message_lock, pc, is_active, used >>
             [] r.kind = "item" /\ ~Excluded(r.id, f.excl) /\ is_active[r.id] ->
                    \/ \E ok \in SendOutcomes(r.id) :
                        /\ wire' = Written(r.id, f.msg, ok)
                        /\ is_active' = ActiveAfter(r.id, ok)
                        /\ used' = UsedAfter(used, r.id, ok)
                        /\ frame' = [frame EXCEPT ![t] =
                              IF ok
                              THEN [Advance(f, r.idx) EXCEPT !.delivered = @ \cup {r.id}]
                              ELSE [Advance(f, r.idx) EXCEPT !.todo = Append(@, r.id),
                                                             !.failed = @ \cup {r.id}]]
                        /\ UNCHANGED << message_lock, pc >>
                    \/ /\ sock[r.id] = "open"
                       /\ used < MaxEvents
                       /\ f.msg.body # <<>>
                       /\ wire' = Written(r.id, SentPart(f.msg), TRUE)
                       /\ used' = used + 1
                       /\ frame' = [frame EXCEPT ![t] =
                              [Advance(f, r.idx) EXCEPT !.delivered = @ \cup {r.id}]]
                       /\ UNCHANGED << message_lock, pc, is_active >>
    /\ UNCHANGED << room_password, is_running, server_socket, clients, entries,
                    clients_lock, sock, nickname, acc, credOf, hist, client >>

\* client_conn.send_message inside the for loop, to a recipient that is
\* connected but does not read: the socket has no timeout, self.socket.send does
\* not return, and the thread stays inside "with self.message_lock"
BroadcastStuck(t) ==
    /\ pc[t] = "b_iter"
    /\ used < MaxEvents
    /\ LET r == IterNext(frame[t])
       IN  /\ r.kind = "item"
           /\ ~Excluded(r.id, frame[t].excl)
           /\ is_active[r.id]
           /\ sock[r.id] = "open"
           /\ frame' = [frame EXCEPT ![t] = [Advance(@, r.idx) EXCEPT !.at = r.id]]
    /\ used' = used + 1
    /\ pc' = [pc EXCEPT ![t] = "b_stuck"]
    /\ wire' = {}
    /\ UNCHANGED << room_password, is_running, server_socket, clients, entries,
                    message_lock, clients_lock, sock, is_active, nickname, acc,
                    credOf, hist, client >>

\* the send that did not return raises once the recipient's socket is closed:
\* send_message catches it, clears is_active and returns False, and the loop
\* body puts the recipient on clients_to_remove
BroadcastUnstuck(t) ==
    /\ pc[t] = "b_stuck"
    /\ sock[frame[t].at] # "open"
    /\ is_active' = [is_active EXCEPT ![frame[t].at] = FALSE]
    /\ frame' = [frame EXCEPT ![t] = [@ EXCEPT !.todo = Append(@, frame[t].at),
                                               !.failed = @ \cup {frame[t].at},
                                               !.at = 0]]
    /\ pc' = [pc EXCEPT ![t] = "b_iter"]
    /\ wire' = {}
    /\ UNCHANGED << room_password, is_running, server_socket, clients, entries,
                    message_lock, clients_lock, sock, nickname, acc, used, credOf,
                    hist, client >>

\* for client_id in clients_to_remove: self.remove_client(client_id); after the
\* last one the with block ends and the call returns
BroadcastPrune(t) ==
    /\ pc[t] = "b_prune"
    /\ clients_lock = {}
    /\ LET f == frame[t]
           id == Head(f.todo)
       IN  /\ clients' = remove_client(id)
           /\ hist' = [hist EXCEPT ![id].removals =
                          IF id \in clients /\ id \notin clients' THEN @ + 1 ELSE @]
           /\ IF Tail(f.todo) = <<>>
              THEN /\ message_lock' = {}
                   /\ pc' = [pc EXCEPT ![t] = Resume(t, f.ret, is_active, is_running)]
                   /\ frame' = [frame EXCEPT ![t] = EmptyFrame]
              ELSE /\ frame' = [frame EXCEPT ![t].todo = Tail(@)]
                   /\ UNCHANGED << message_lock, pc >>
    /\ wire' = {}
    /\ UNCHANGED << room_password, is_running, server_socket, entries,
                    clients_lock, sock, is_active, nickname, acc, used, credOf,
                    client >>

(***************************************************************************)
(* accept_connections: the acceptor thread.                                *)
(***************************************************************************)
\* connections are numbered in the order in which accept() returns them
NextToConnect(c) == sock[c] = "none" /\ \A d \in Conns : d < c => sock[d] # "none"

\* "while self.is_running": where the acceptor goes after a finished round
AcceptAgain == IF is_running THEN "accept" ELSE "exited"

\* accept() raises OSError once shutdown has closed the listening socket
AcceptClosed ==
    /\ acc.pc = "accept"
    /\ server_socket = "closed"
    /\ acc' = [acc EXCEPT !.pc = "exited"]
    /\ wire' = {}
    /\ UNCHANGED << room_password, is_running, server_socket, clients, entries,
                    message_lock, clients_lock, sock, is_active, nickname, pc,
                    frame, used, credOf, hist, client >>

\* accept() returns connection c and the registry is full: SERVER_FULL, close.
\* A send that raises OSError ends the acceptor (except OSError: break); the
\* socket is not closed by the code but released when the thread's frame goes.
AcceptFull(c) ==
    /\ acc.pc = "accept"
    /\ server_socket = "open"
    /\ NextToConnect(c)
    /\ AtCapacity
    /\ hist' = [hist EXCEPT ![c].full = TRUE]
    /\ \E ok \in {TRUE, FALSE} :
        /\ used + (IF ~ok THEN 1 ELSE 0) <= MaxEvents
        /\ used' = used + (IF ~ok THEN 1 ELSE 0)
        /\ wire' = Written(c, ServerFullMarker, ok)
        /\ sock' = [sock EXCEPT ![c] = IF ok THEN "closed" ELSE "dropped"]
        /\ acc' = [acc EXCEPT !.pc = IF ok THEN AcceptAgain ELSE "exited"]
    /\ UNCHANGED << room_password, is_running, server_socket, clients, entries,
                    message_lock, clients_lock, is_active, nickname, pc, frame,
                    credOf, client >>

\* a comparison that lets every credential pass
AnyPassword(cred) == TRUE

\* a comparison of the credential as it was received
ExactPassword(cred) == cred = room_password

\* client_password = password_data.decode(...).strip();
\* if client_password == self.room_password
PasswordMatches(cred) == Strip(cred) = room_password

\* the events of one authenticate_client call that read a credential, in the
\* order of the code: send PASSWORD_REQUEST, recv, send the answer
AnswerFirst(cred, answer) ==
    << [ev |-> answer, data |-> <<>>], [ev |-> "PASSWORD_REQUEST", data |-> <<>>],
       [ev |-> "cred", data |-> cred] >>

HandshakeEvents(cred, answer) ==
    << [ev |-> "PASSWORD_REQUEST", data |-> <<>>], [ev |-> "cred", data |-> cred],
       [ev |-> answer, data |-> <<>>] >>

\* a handshake that goes on to the nickname step whatever authenticate_client
\* returned
ProceedRegardless(c, ok) == [pc |-> "nick", c |-> c, timeout |-> NoTimeout]

\* if not self.authenticate_client(client_socket): client_socket.close();
\* continue.  authenticate_client leaves the socket without timeout
\* (finally: client_socket.settimeout(None)).
AfterAuthentication(c, ok) ==
    IF ok THEN [pc |-> "nick", c |-> c, timeout |-> NoTimeout]
    ELSE [pc |-> AcceptAgain, c |-> 0, timeout |-> NoTimeout]

\* accept() returns c, the registry has room, and authenticate_client fails
\* before a credential is compared: the send of PASSWORD_REQUEST raises
\* (sent = FALSE), or the recv times out or raises.  The socket is closed.
AuthenticateFault(c) ==
    /\ acc.pc = "accept"
    /\ server_socket = "open"
    /\ NextToConnect(c)
    /\ ~AtCapacity
    /\ used < MaxEvents
    /\ used' = used + 1
    /\ \E sent \in {TRUE, FALSE} :
        /\ wire' = Written(c, PasswordRequestMarker, sent)
        /\ hist' = [hist EXCEPT ![c].log =
                       (IF sent THEN << [ev |-> "PASSWORD_REQUEST", data |-> <<>>] >>
                        ELSE <<>>) \o << [ev |-> "fault", data |-> <<>>] >>]
    /\ acc' = AfterAuthentication(c, FALSE)
    /\ sock' = [sock EXCEPT ![c] = IF acc'.c = c THEN "open" ELSE "closed"]
    /\ UNCHANGED << room_password, is_running, server_socket, clients, entries,
                    message_lock, clients_lock, is_active, nickname, pc, frame,
                    credOf, client >>

\* accept() returns c, the registry has room, and authenticate_client reads a
\* credential and answers; replied = FALSE is the send of the answer raising,
\* which makes the call return False
AuthenticateClient(c, cred) ==
    /\ acc.pc = "accept"
    /\ server_socket = "open"
    /\ NextToConnect(c)
    /\ ~AtCapacity
    /\ credOf' = [credOf EXCEPT ![c] = cred]
    /\ \E replied \in {TRUE, FALSE} :
        LET cost == (IF cred # PlainCredential THEN 1 ELSE 0) + (IF ~replied THEN 1 ELSE 0)
            answer == IF PasswordMatches(cred) THEN "AUTH_SUCCESS" ELSE "AUTH_FAILED"
        IN  /\ used + cost <= MaxEvents
            /\ used' = used + cost
            /\ wire' = Written(c, PasswordRequestMarker, TRUE)
                          \cup Written(c, Marker(answer), replied)
            /\ hist' = [hist EXCEPT ![c].credread = TRUE,
                                    ![c].answer = IF replied THEN answer ELSE "none",
                                    ![c].log = HandshakeEvents(cred,
                                                   IF replied THEN answer ELSE "fault")]
            /\ acc' = AfterAuthentication(c, PasswordMatches(cred) /\ replied)
            /\ sock' = [sock EXCEPT ![c] = IF acc'.c = c THEN "open" ELSE "closed"]
    /\ UNCHANGED << room_password, is_running, server_socket, clients, entries,
                    message_lock, clients_lock, is_active, nickname, pc, frame,
                    client >>

\* if nickname and len(nickname) <= 20 and nickname.isalnum()
NicknameValid(nick) == nick # <<>> /\ Len(nick) <= 20 /\ IsAlnum(nick)

\* a nickname step that takes whatever was submitted
SubmittedNickname(data) == Strip(data)

\* get_client_nickname: the submitted name, or the generated one
ChosenNickname(data) == IF NicknameValid(Strip(data)) THEN Strip(data) ELSE Placeholder

\* with self.clients_lock: self.clients[client_id] = client_connection
RegistryInsert(client_id) == clients \cup {client_id}

\* get_client_nickname returned nick: the ClientConnection is made, put in the
\* registry under clients_lock, and its session thread is started; events are
\* those of the get_client_nickname call
Admit(nick, events) ==
    /\ clients_lock = {}
    /\ nickname' = [nickname EXCEPT ![acc.c] = nick]
    /\ is_active' = [is_active EXCEPT ![acc.c] = TRUE]
    /\ clients' = RegistryInsert(acc.c)
    /\ entries' = Append(entries, acc.c)
    /\ hist' = [hist EXCEPT ![acc.c].inserts =
                                IF acc.c \in clients' \ clients THEN @ + 1 ELSE @,
                            ![acc.c].log =
                                @ \o events \o << [ev |-> "insert", data |-> <<>>] >>,
                            ![acc.c].timeout = acc.timeout]
    /\ pc' = [pc EXCEPT ![acc.c] = "welcome"]
    /\ acc' = [pc |-> AcceptAgain, c |-> 0, timeout |-> NoTimeout]
    /\ UNCHANGED << room_password, is_running, server_socket, message_lock,
                    clients_lock, sock, frame, credOf, client >>

\* the nickname arrives
GetClientNickname(data) ==
    /\ acc.pc = "nick"
    /\ used + (IF data # PlainNickname THEN 1 ELSE 0) <= MaxEvents
    /\ used' = used + (IF data # PlainNickname THEN 1 ELSE 0)
    /\ wire' = Written(acc.c, Marker("NICKNAME_REQUEST"), TRUE)
    /\ Admit(ChosenNickname(data),
             << [ev |-> "NICKNAME_REQUEST", data |-> <<>>],
                [ev |-> "nick", data |-> data] >>)

\* the send of NICKNAME_REQUEST or the recv raises: the placeholder is used
GetClientNicknameFault ==
    /\ acc.pc = "nick"
    /\ used < MaxEvents
    /\ used' = used + 1
    /\ \E sent \in {TRUE, FALSE} :
        /\ wire' = Written(acc.c, Marker("NICKNAME_REQUEST"), sent)
        /\ Admit(Placeholder,
                 (IF sent THEN << [ev |-> "NICKNAME_REQUEST", data |-> <<>>] >>
                  ELSE <<>>) \o << [ev |-> "fault", data |-> <<>>] >>)

(***************************************************************************)
(* handle_client: the session thread of connection c.                      *)
(***************************************************************************)
RECURSIVE Names(_)
\* ', '.join(online_users), as one token string
Names(ids) == IF ids = <<>> THEN <<>> ELSE nickname[Head(ids)] \o Names(Tail(ids))

\* the ids of the active registry entries, in dict order
RECURSIVE ActiveFrom(_)
ActiveFrom(pos) ==
    LET i == NextIndex(pos)
    IN  IF i = 0 THEN <<>>
        ELSE (IF is_active[entries[i]] THEN <<entries[i]>> ELSE <<>>) \o ActiveFrom(i)

\* self.broadcast_message("系统", welcome_msg, exclude_client=client_id); an
\* exception is caught by the outer handler and leads to the teardown
SessionWelcome(c) ==
    /\ pc[c] = "welcome"
    /\ CallBroadcast(c, format_message("welcome", c, SystemLabel,
                                       <<"welcome">> \o nickname[c]),
                     c, "roster", "t_remove", clients, is_active, is_running)
    /\ wire' = {}
    /\ UNCHANGED << room_password, is_running, server_socket, clients, entries,
                    message_lock, clients_lock, sock, is_active, nickname, acc,
                    used, credOf, hist, client >>

\* [client.nickname for client in self.clients.values() if client.is_active]:
\* the iterator is created, no lock held
RosterBegin(c) ==
    /\ pc[c] = "roster"
    /\ frame' = [frame EXCEPT ![c] = NewIterator(EmptyFrame)]
    /\ pc' = [pc EXCEPT ![c] = "roster_iter"]
    /\ wire' = {}
    /\ UNCHANGED << room_password, is_running, server_socket, clients, entries,
                    message_lock, clients_lock, sock, is_active, nickname, acc,
                    used, credOf, hist, client >>

\* the comprehension runs: RuntimeError when the registry changed size since
\* the iterator was made (on to the teardown), else the roster is sent to c
RosterIter(c) ==
    /\ pc[c] = "roster_iter"
    /\ IF IterNext(frame[c]).kind = "error"
       THEN /\ pc' = [pc EXCEPT ![c] = "t_remove"]
            /\ wire' = {}
            /\ UNCHANGED << is_active, used >>
       ELSE \E ok \in SendOutcomes(c) :
                /\ wire' = Written(c, format_message("roster", c, SystemLabel,
                                                     Names(ActiveFrom(0))), ok)
                /\ is_active' = ActiveAfter(c, ok)
                /\ used' = UsedAfter(used, c, ok)
                /\ pc' = [pc EXCEPT ![c] = Resume(c, "loop", is_active', is_running)]
    /\ frame' = [frame EXCEPT ![c] = EmptyFrame]
    /\ UNCHANGED << room_password, is_running, server_socket, clients, entries,
                    message_lock, clients_lock, sock, nickname, acc, credOf,
                    hist, client >>

\* a handle_command that knows no command
UnknownReply(c, command) ==
    format_message("unknown", c, SystemLabel, <<"unknown">> \o command)

\* handle_command for the commands answered without a lock: the reply
CommandReply(c, command) ==
    IF command = <<"/", "quit">> THEN format_message("farewell", c, SystemLabel, <<"bye">>)
    ELSE IF command = <<"/", "help">> THEN Marker("help")
    ELSE IF command = <<"/", "time">> THEN format_message("time", c, SystemLabel, <<"time">>)
    ELSE format_message("unknown", c, SystemLabel, <<"unknown">> \o command)

\* a line of a connection whose flag is up is one of the MaxEvents; the one
\* line that a thread waiting in recv can still get after its flag was cleared
\* (the loop test was passed before the recv) is not counted
LineCost(c) == IF is_active[c] THEN 1 ELSE 0

\* recv returns a line: one that does not decode (UnicodeDecodeError, caught
\* by "except Exception: break"), empty after strip, a command, or a chat line
SessionRecvLine(c, data) ==
    /\ pc[c] = "recv"
    /\ sock[c] = "open"
    /\ used + LineCost(c) <= MaxEvents
    /\ LET message == Strip(data)
           u == used + LineCost(c)
       IN  IF ~Decodes(data)
           THEN /\ pc' = [pc EXCEPT ![c] = "t_remove"]
                /\ used' = u
                /\ wire' = Heard(c, data)
                /\ UNCHANGED << frame, is_active >>
           ELSE IF message = <<>>
           THEN /\ pc' = [pc EXCEPT ![c] = Resume(c, "loop", is_active, is_running)]
                /\ used' = u
                /\ wire' = Heard(c, data)
                /\ UNCHANGED << frame, is_active >>
           ELSE IF StartsWithSlash(message)
           THEN IF message = <<"/", "users">>
                THEN /\ pc' = [pc EXCEPT ![c] = "cmd_users"]
                     /\ used' = u
                     /\ wire' = Heard(c, data)
                     /\ UNCHANGED << frame, is_active >>
                ELSE \E ok \in (IF u < MaxEvents THEN {TRUE, FALSE} ELSE {TRUE}) :
                        /\ wire' = Heard(c, data) \cup Written(c, CommandReply(c, message), ok)
                        /\ used' = UsedAfter(u, c, ok)
                        /\ is_active' =
                              IF message = <<"/", "quit">>
                              THEN [is_active EXCEPT ![c] = FALSE]
                              ELSE ActiveAfter(c, ok)
                        /\ pc' = [pc EXCEPT ![c] =
                                     Resume(c, "loop", is_active', is_running)]
                        /\ frame' = frame
           ELSE /\ CallBroadcast(c, format_message("chat", c, nickname[c], message),
                                 c, "loop", "t_remove", clients, is_active, is_running)
                /\ used' = u
                /\ wire' = Heard(c, data)
                /\ UNCHANGED << is_active >>
    /\ UNCHANGED << room_password, is_running, server_socket, clients, entries,
                    message_lock, clients_lock, sock, nickname, acc, credOf,
                    hist, client >>

\* /users: the list is built under clients_lock, then sent
SessionUsers(c) ==
    /\ pc[c] = "cmd_users"
    /\ clients_lock = {}
    /\ \E ok \in SendOutcomes(c) :
        /\ wire' = Written(c, format_message("users", c, SystemLabel,
                                             Names(ActiveFrom(0))), ok)
        /\ is_active' = ActiveAfter(c, ok)
        /\ used' = UsedAfter(used, c, ok)
    /\ pc' = [pc EXCEPT ![c] = Resume(c, "loop", is_active', is_running)]
    /\ UNCHANGED << room_password, is_running, server_socket, clients, entries,
                    message_lock, clients_lock, sock, nickname, acc, frame,
                    credOf, hist, client >>

\* recv returns b'' (peer closed) or raises (reset, socket closed by shutdown)
SessionRecvClosed(c) ==
    /\ pc[c] = "recv"
    /\ pc' = [pc EXCEPT ![c] = "t_remove"]
    /\ wire' = {}
    /\ UNCHANGED << room_password, is_running, server_socket, clients, entries,
                    message_lock, clients_lock, sock, is_active, nickname, acc,
                    frame, used, credOf, hist, client >>

\* finally: self.remove_client(client_id); client_connection.close(); then the
\* departure broadcast, whose exception leaves the thread
Teardown(c) ==
    /\ pc[c] = "t_remove"
    /\ clients_lock = {}
    /\ clients' = remove_client(c)
    /\ sock' = [sock EXCEPT ![c] = "closed"]
    /\ is_active' = [is_active EXCEPT ![c] = FALSE]
    /\ hist' = [hist EXCEPT ![c].removals =
                                IF c \in clients /\ c \notin clients' THEN @ + 1 ELSE @,
                            ![c].departs = @ + 1]
    /\ CallBroadcast(c, format_message("leave", c, SystemLabel, nickname[c] \o <<"left">>),
                     0, "done", "crashed", clients', is_active', is_running)
    /\ wire' = {}
    /\ UNCHANGED << room_password, is_running, server_socket, entries,
                    message_lock, clients_lock, nickname, acc, used, credOf,
                    client >>

(***************************************************************************)
(* server_input_handler (the console thread), kick_user, shutdown, run.    *)
(***************************************************************************)
\* any other input: self.broadcast_message("服务器管理员", server_input)
ConsoleSay ==
    /\ pc[Console] = "input"
    /\ used < MaxEvents
    /\ used' = used + 1
    /\ CallBroadcast(Console, format_message("admin", 0, AdminLabel, <<"hello">>),
                     0, "c_loop", "c_loop", clients, is_active, is_running)
    /\ wire' = {}
    /\ UNCHANGED << room_password, is_running, server_socket, clients, entries,
                    message_lock, clients_lock, sock, is_active, nickname, acc,
                    credOf, hist, client >>

\* a test that every entry passes
AnyoneMatches(c, username) == TRUE

\* if client_conn.nickname == username and client_conn.is_active
KickMatch(c, username) == nickname[c] = username /\ is_active[c]

\* a scan that runs to the last entry that matches
LastKickTarget(username) ==
    LET hits == { i \in 1 .. Len(entries) :
                    entries[i] \in clients /\ KickMatch(entries[i], username) }
    IN  IF hits = {} THEN 0
        ELSE entries[CHOOSE i \in hits : \A j \in hits : i >= j]

\* the first registry entry, in dict order, that matches; 0 when none does
KickTarget(username) ==
    LET hits == { i \in 1 .. Len(entries) :
                    entries[i] \in clients /\ KickMatch(entries[i], username) }
    IN  IF hits = {} THEN 0
        ELSE entries[CHOOSE i \in hits : \A j \in hits : i <= j]

\* /kick <name> when no entry matches: the scan under clients_lock finds nothing
\* and the console is told
KickUserAbsent(username) ==
    /\ pc[Console] = "input"
    /\ used < MaxEvents
    /\ clients_lock = {}
    /\ KickTarget(username) = 0
    /\ used' = used + 1
    /\ pc' = [pc EXCEPT ![Console] = Resume(Console, "c_loop", is_active, is_running)]
    /\ wire' = Report("kick_not_found", username)
    /\ UNCHANGED << room_password, is_running, server_socket, clients, entries,
                    message_lock, clients_lock, sock, is_active, nickname, acc,
                    frame, credOf, hist, client >>

\* /kick <name> when an entry matches: notify it, clear its flag, tell the
\* console, and broadcast with it excluded, all inside "with self.clients_lock"
KickUser(username) ==
    /\ pc[Console] = "input"
    /\ used < MaxEvents
    /\ clients_lock = {}
    /\ KickTarget(username) # 0
    /\ clients_lock' = {Console}
    /\ LET id == KickTarget(username)
       IN  /\ \E ok \in (IF sock[id] # "open" THEN {FALSE}
                         ELSE IF used + 1 < MaxEvents THEN {TRUE, FALSE} ELSE {TRUE}) :
                /\ wire' = Written(id, format_message("kicked", id, SystemLabel,
                                                      <<"kicked">>), ok)
                              \cup Report("kick_done", username)
                /\ used' = UsedAfter(used + 1, id, ok)
           /\ is_active' = [is_active EXCEPT ![id] = FALSE]
           /\ hist' = [hist EXCEPT ![id].departs = @ + 1]
           /\ CallBroadcast(Console,
                            format_message("kick_notice", id, SystemLabel,
                                           username \o <<"was", "kicked">>),
                            id, "k_exit", "k_exit", clients, is_active', is_running)
    /\ UNCHANGED << room_password, is_running, server_socket, clients, entries,
                    message_lock, sock, nickname, acc, credOf, client >>

\* the with block of kick_user ends (return, or an exception of the broadcast)
KickExit ==
    /\ pc[Console] = "k_exit"
    /\ clients_lock' = {}
    /\ pc' = [pc EXCEPT ![Console] = Resume(Console, "c_loop", is_active, is_running)]
    /\ wire' = {}
    /\ UNCHANGED << room_password, is_running, server_socket, clients, entries,
                    message_lock, sock, is_active, nickname, acc, frame, used,
                    credOf, hist, client >>

\* shutdown is entered by the console (/quit, EOF, interrupt) and then by the
\* main thread (run's finally, once "while self.is_running" ends): the flag is
\* cleared and the closing notice broadcast
ShutdownBegin(t) ==
    /\ \/ t = Console /\ pc[t] = "input" /\ used < MaxEvents
       \/ t = Main /\ pc[t] = "m_wait" /\ ~is_running
    /\ used' = IF t = Console THEN used + 1 ELSE used
    /\ is_running' = FALSE
    /\ CallBroadcast(t, format_message("shutdown", 0, SystemLabel, <<"closing">>),
                     0, "s_close", IF t = Console THEN "c_loop" ELSE "done",
                     clients, is_active, FALSE)
    /\ wire' = {}
    /\ UNCHANGED << room_password, server_socket, clients, entries,
                    message_lock, clients_lock, sock, is_active, nickname, acc,
                    credOf, hist, client >>

\* with self.clients_lock: close every connection; self.clients.clear(); then
\* self.server_socket.close()
ShutdownClose(t) ==
    /\ pc[t] = "s_close"
    /\ clients_lock = {}
    /\ sock' = [c \in Conns |-> IF c \in clients THEN "closed" ELSE sock[c]]
    /\ is_active' = [c \in Conns |-> IF c \in clients THEN FALSE ELSE is_active[c]]
    /\ hist' = [c \in Conns |->
                  IF c \in clients THEN [hist[c] EXCEPT !.removals = @ + 1] ELSE hist[c]]
    /\ clients' = {}
    /\ entries' = <<>>
    /\ server_socket' = "closed"
    /\ pc' = [pc EXCEPT ![t] = "done"]
    /\ wire' = {}
    /\ UNCHANGED << room_password, is_running, message_lock, clients_lock,
                    nickname, acc, frame, used, credOf, client >>

(***************************************************************************)
(* The client program: ChatClient.run and its receive thread.              *)
(***************************************************************************)
\* ClientConfig.RETRY_ATTEMPTS
RETRY_ATTEMPTS == 3
\* ClientConfig.MAX_MESSAGE_SIZE
MAX_MESSAGE_SIZE == 500
\* lines the user types in one run of the client
MaxTyped == 3
\* messages of the server the receive thread shows
MaxShown == 1

\* the directives and commands a user may type, spelled in lower case
DirectiveNames == {"/quit", "/exit", "/q", "/help", "/clear", "/cls", "/time", "/users"}

\* len() of a directive
DirectiveLen(name) ==
    CASE name = "/q" -> 2
      [] name = "/cls" -> 4
      [] name \in {"/clear", "/users"} -> 6
      [] OTHER -> 5

\* the string literal of a directive, as the code spells it
Directive(name) == [cmd |-> name, body |-> DirectiveLen(name), pad |-> 0, upper |-> FALSE]

\* a typed line: body characters that do not begin or end with a blank, with
\* pad blanks around them; cmd tells what the body spells when lower-cased,
\* upper whether it was typed in capitals
ClientLines ==
    [ cmd : {"text"}, body : {0, 1, MAX_MESSAGE_SIZE, MAX_MESSAGE_SIZE + 1},
      pad : {0, 2}, upper : {FALSE} ]
    \cup { [Directive(name) EXCEPT !.upper = u] : name \in DirectiveNames, u \in BOOLEAN }
    \cup { [Directive(name) EXCEPT !.pad = 2] : name \in {"/quit", "/help"} }

\* what readline.get_line_buffer() may return while a message arrives: nothing
\* typed yet, or the beginning of a line
LineBuffers == { <<>>, <<"he">> }

NoLine == [cmd |-> "none", body |-> 0, pad |-> 0, upper |-> FALSE]

\* len(str)
ClientLen(line) == line.body + line.pad

\* input(...).strip()
ClientStrip(line) == [line EXCEPT !.pad = 0]

\* str.lower()
ClientLower(line) == [line EXCEPT !.upper = FALSE]

\* line: what was last typed at the prompt; why: what ended the input loop;
\* did: the steps of disconnect, in the order taken; heard: what the last recv
\* of the receive thread gave; current_input_buffer: self.current_input_buffer;
\* retry_closed: how many sockets connect_to_server has closed
ClientStart ==
    [ pc |-> "connect", rpc |-> "none", is_running |-> FALSE, is_connected |-> FALSE,
      client_socket |-> "none", attempt |-> 0, typed |-> 0, shown |-> 0,
      onwire |-> <<>>, last |-> "none", line |-> NoLine, why |-> "none",
      did |-> <<>>, heard |-> "none", current_input_buffer |-> <<>>,
      retry_closed |-> 0 ]

\* a cleanup that forgets the socket without closing it
drop_socket(cl) == [cl EXCEPT !.client_socket = "none"]

\* after a failed attempt: if self.client_socket: close it; self.client_socket
\* = None
connect_cleanup(cl) ==
    IF cl.client_socket # "none"
    THEN [cl EXCEPT !.client_socket = "none", !.retry_closed = @ + 1]
    ELSE cl

\* connect_to_server: one attempt of the retry loop: a socket is made ("fresh")
\* and connect() returns (ok) or raises; after the last failed attempt run
\* returns and its finally calls disconnect
ClientConnect(ok) ==
    /\ client.pc = "connect"
    /\ LET made == [client EXCEPT !.attempt = @ + 1, !.client_socket = "fresh"]
       IN  client' =
             IF ok
             THEN [made EXCEPT !.client_socket = "open", !.is_connected = TRUE,
                               !.pc = "auth"]
             ELSE [connect_cleanup(made) EXCEPT
                      !.pc = IF made.attempt < RETRY_ATTEMPTS
                             THEN "connect" ELSE "disconnect"]
    /\ UNCHANGED server_vars

\* authenticate: on AUTH_SUCCESS run sets is_running, starts the receive thread
\* and enters handle_user_input; anything else leads to disconnect
ClientAuthenticate(result) ==
    /\ client.pc = "auth"
    /\ client' = IF result = "AUTH_SUCCESS"
                 THEN [client EXCEPT !.is_running = TRUE, !.rpc = "recv",
                                     !.pc = "input"]
                 ELSE [client EXCEPT !.pc = "disconnect"]
    /\ UNCHANGED server_vars

\* a send_message whose failed sendall leaves is_connected as it was
send_unmarked(cl, message, raises) ==
    IF ~cl.is_connected \/ cl.client_socket = "none"
    THEN [ret |-> FALSE, cl |-> [cl EXCEPT !.last = "not_connected"]]
    ELSE IF ClientLen(message) > MAX_MESSAGE_SIZE
    THEN [ret |-> FALSE, cl |-> [cl EXCEPT !.last = "too_long"]]
    ELSE IF raises
    THEN [ret |-> FALSE, cl |-> [cl EXCEPT !.last = "failed"]]
    ELSE [ret |-> TRUE, cl |-> [cl EXCEPT !.last = "sent", !.onwire = Append(@, message)]]

\* send_message(message): [ret, what], what being the outcome; raises is whether
\* sendall raises
send_message(cl, message, raises) ==
    IF ~cl.is_connected \/ cl.client_socket = "none"
    THEN [ret |-> FALSE, cl |-> [cl EXCEPT !.last = "not_connected"]]
    ELSE IF ClientLen(message) > MAX_MESSAGE_SIZE
    THEN [ret |-> FALSE, cl |-> [cl EXCEPT !.last = "too_long"]]
    ELSE IF raises
    THEN [ret |-> FALSE, cl |-> [cl EXCEPT !.last = "failed", !.is_connected = FALSE]]
    ELSE [ret |-> TRUE, cl |-> [cl EXCEPT !.last = "sent", !.onwire = Append(@, message)]]

\* "while self.is_running and self.is_connected" of handle_user_input; when it
\* ends, run's finally calls disconnect
ClientLoop(cl) ==
    [cl EXCEPT !.pc = IF cl.is_running /\ cl.is_connected THEN "input" ELSE "disconnect",
               !.why = IF cl.is_running /\ cl.is_connected THEN @ ELSE "loop"]

\* a client that has no directive of its own
NoLocalDirective(user_input) == FALSE

\* user_input.lower() == '/help', in ['/clear', '/cls'], == '/time': handled by
\* the client itself, then "continue"
IsLocalDirective(user_input) ==
    ClientLower(user_input) \in { Directive("/help"), Directive("/clear"),
                                 Directive("/cls"), Directive("/time") }

\* user_input.lower() in ['/quit', '/exit', '/q']
IsQuitDirective(user_input) ==
    ClientLower(user_input) \in { Directive("/quit"), Directive("/exit"), Directive("/q") }

\* one line typed at the prompt, and what handle_user_input does with it; after
\* a line was sent, self.current_input_buffer = ""
ClientInput(line, raises) ==
    /\ client.pc = "input"
    /\ client.typed < MaxTyped
    /\ LET user_input == ClientStrip(line)
           cl == [client EXCEPT !.typed = @ + 1, !.line = line, !.last = "none"]
       IN  client' =
             IF ClientLen(user_input) = 0 THEN ClientLoop(cl)
             ELSE IF IsQuitDirective(user_input)
             THEN [send_message(cl, Directive("/quit"), raises).cl
                      EXCEPT !.pc = "disconnect", !.why = "quit"]
             ELSE IF IsLocalDirective(user_input) THEN ClientLoop(cl)
             ELSE LET r == send_message(cl, user_input, raises)
                  IN  IF ~r.ret THEN [r.cl EXCEPT !.pc = "disconnect", !.why = "send"]
                      ELSE ClientLoop([r.cl EXCEPT !.current_input_buffer = <<>>])
    /\ UNCHANGED server_vars

\* input() raises KeyboardInterrupt (Ctrl+C) or EOFError (end of input):
\* self.send_message('/quit'), then break
ClientInterrupt(kind, raises) ==
    /\ client.pc = "input"
    /\ client' = [send_message([client EXCEPT !.last = "none"],
                               Directive("/quit"), raises).cl
                     EXCEPT !.pc = "disconnect", !.why = kind]
    /\ UNCHANGED server_vars

\* a disconnect that closes the socket before it stops the receive thread
CloseFirst == << "close", "join", "clear_flags" >>

\* disconnect: self.is_running = False; self.is_connected = False;
\* self.receive_thread.join(timeout=2); self.client_socket.close()
DisconnectSteps == << "clear_flags", "join", "close" >>

\* disconnect, called by run's finally.  The join waits two seconds at most, so
\* the receive thread may still be running when the socket is closed.
ClientDisconnect ==
    /\ client.pc = "disconnect"
    /\ client' = [client EXCEPT !.is_running = FALSE, !.is_connected = FALSE,
                                !.client_socket = IF @ = "open" THEN "closed" ELSE @,
                                !.did = DisconnectSteps,
                                !.pc = "exited"]
    /\ UNCHANGED server_vars

\* receive_messages: one recv of the loop.  "data" is a message shown, after
\* which the line being typed is printed again and, when there is one, stored
\* (self.current_input_buffer = current_input); "timeout"
\* goes back to the loop test, "eof" and "reset" clear is_connected; "garbled"
\* is data whose decode raises and "oserror" a recv that raises another error
\* than timeout or reset, both caught by "except Exception", as is "error", the
\* recv raising on the socket that disconnect has closed
ClientRecv(ev) ==
    /\ client.rpc = "recv"
    /\ LET again(cl) == [cl EXCEPT !.rpc = IF cl.is_running /\ cl.is_connected
                                           THEN "recv" ELSE "exited"]
           caught(cl) == [cl EXCEPT !.rpc = "exited",
                                    !.is_connected =
                                        IF cl.is_running /\ cl.is_connected
                                        THEN FALSE ELSE @]
       IN  CASE ev = "data" ->
                    /\ client.client_socket = "open"
                    /\ client.shown < MaxShown
                    /\ \E current_input \in LineBuffers :
                         client' = again([client EXCEPT
                                            !.shown = @ + 1, !.heard = ev,
                                            !.current_input_buffer =
                                                IF current_input # <<>>
                                                THEN current_input ELSE @])
             [] ev = "timeout" ->
                    /\ client.client_socket = "open"
                    /\ client' = again([client EXCEPT !.heard = ev])
             [] ev \in {"eof", "reset"} ->
                    /\ client.client_socket = "open"
                    /\ client' = [client EXCEPT !.is_connected = FALSE, !.rpc = "exited",
                                                !.heard = ev]
             [] ev \in {"garbled", "oserror"} ->
                    /\ client.client_socket = "open"
                    /\ client' = caught([client EXCEPT !.heard = ev])
             [] ev = "error" ->
                    /\ client.client_socket = "closed"
                    /\ client' = caught([client EXCEPT !.heard = ev])
    /\ UNCHANGED server_vars

(***************************************************************************)
(* The specifications.                                                     *)
(***************************************************************************)
Init ==
    /\ room_password \in RoomPasswords
    /\ is_running = TRUE
    /\ server_socket = "open"
    /\ clients = {}
    /\ entries = <<>>
    /\ message_lock = {}
    /\ clients_lock = {}
    /\ sock = [c \in Conns |-> "none"]
    /\ is_active = [c \in Conns |-> FALSE]
    /\ nickname = [c \in Conns |-> <<>>]
    /\ acc = [pc |-> "accept", c |-> 0, timeout |-> NoTimeout]
    /\ pc = [t \in Threads |-> IF t = Console THEN "input"
                               ELSE IF t = Main THEN "m_wait" ELSE "none"]
    /\ frame = [t \in Threads |-> EmptyFrame]
    /\ used = 0
    /\ wire = {}
    /\ credOf = [c \in Conns |-> NoCred]
    /\ hist = [c \in Conns |-> NoHist]
    /\ client = ClientStart

Next ==
    \/ AcceptClosed
    \/ \E c \in Conns : AcceptFull(c)
    \/ \E c \in Conns : AuthenticateFault(c)
    \/ \E c \in Conns, cred \in Credentials : AuthenticateClient(c, cred)
    \/ \E data \in NickInputs : GetClientNickname(data)
    \/ GetClientNicknameFault
    \/ \E c \in Conns : SessionWelcome(c)
    \/ \E c \in Conns : RosterBegin(c)
    \/ \E c \in Conns : RosterIter(c)
    \/ \E c \in Conns, data \in ChatLines : SessionRecvLine(c, data)
    \/ \E c \in Conns : SessionUsers(c)
    \/ \E c \in Conns : SessionRecvClosed(c)
    \/ \E c \in Conns : Teardown(c)
    \/ \E t \in Threads : BroadcastLock(t)
    \/ \E t \in Threads : BroadcastIter(t)
    \/ \E t \in Threads : BroadcastPrune(t)
    \/ \E t \in Threads : BroadcastStuck(t)
    \/ \E t \in Threads : BroadcastUnstuck(t)
    \/ ConsoleSay
    \/ \E username \in KickNames : KickUserAbsent(username)
    \/ \E username \in KickNames : KickUser(username)
    \/ KickExit
    \/ \E t \in {Console, Main} : ShutdownBegin(t)
    \/ \E t \in {Console, Main} : ShutdownClose(t)

\* the server
Spec == Init /\ [][Next]_vars

ClientNext ==
    \/ \E ok \in BOOLEAN : ClientConnect(ok)
    \/ \E result \in {"AUTH_SUCCESS", "AUTH_FAILED", "SERVER_FULL", "fault"} :
            ClientAuthenticate(result)
    \/ \E line \in ClientLines, raises \in BOOLEAN : ClientInput(line, raises)
    \/ \E kind \in {"interrupt", "eof"}, raises \in BOOLEAN : ClientInterrupt(kind, raises)
    \/ ClientDisconnect
    \/ \E ev \in {"data", "timeout", "eof", "reset", "garbled", "oserror", "error"} :
            ClientRecv(ev)

\* the client
ClientSpec == Init /\ [][ClientNext]_vars

\* the client, with its threads scheduled: a thread that can take a step of
\* its own takes one.  What the user does at the prompt (a line, Ctrl+C, end of
\* input) is not scheduled: input() waits for as long as the user does nothing.
ClientLive ==
    /\ ClientSpec
    /\ WF_vars(\E ok \in BOOLEAN : ClientConnect(ok))
    /\ WF_vars(\E result \in {"AUTH_SUCCESS", "AUTH_FAILED", "SERVER_FULL", "fault"} :
                    ClientAuthenticate(result))
    /\ WF_vars(ClientDisconnect)
    /\ WF_vars(\E ev \in {"data", "timeout", "eof", "reset", "garbled", "oserror",
                           "error"} : ClientRecv(ev))

(***************************************************************************)
(* Properties of the handshake and of the registry.                        *)
(***************************************************************************)
\* C1 (as the code has it): for every connection whose credential was read,
\* the registry takes it at most once; if the credential with its leading and
\* trailing blanks stripped equals the room secret and AUTH_SUCCESS was
\* written, the connection is in the nickname step or was inserted exactly
\* once; otherwise (the stripped credential differs, or the write of the answer
\* raised) nothing but AUTH_FAILED was answered, the socket is closed and the
\* connection was never inserted and is not in the registry.
C1_HandshakeStripped ==
    /\ \A c \in Conns : hist[c].credread =>
        /\ hist[c].inserts <= 1
        /\ IF Strip(credOf[c]) = room_password /\ hist[c].answer = "AUTH_SUCCESS"
           THEN (acc.pc = "nick" /\ acc.c = c) \/ hist[c].inserts = 1
           ELSE /\ hist[c].inserts = 0
                /\ c \notin clients
                /\ sock[c] = "closed"
        /\ Strip(credOf[c]) # room_password => hist[c].answer \in {"AUTH_FAILED", "none"}
    /\ \A c \in Conns : ~hist[c].credread => hist[c].inserts = 0 /\ c \notin clients

\* C1, a case of it: a connection that submitted the secret followed by a
\* blank was admitted
C1_Witness ==
    \E c \in Conns : /\ credOf[c] # room_password
                     /\ Strip(credOf[c]) = room_password
                     /\ hist[c].inserts = 1
                     /\ c \in clients

\* C1 as stated: a credential equal to the secret gets the connection admitted
\* exactly once; any other credential is answered AUTH_FAILED, the socket is
\* closed and the connection never is in the registry
C1_AsStated ==
    \A c \in Conns : hist[c].credread =>
        IF credOf[c] = room_password
        THEN (acc.pc = "nick" /\ acc.c = c) \/ hist[c].inserts = 1
        ELSE /\ hist[c].answer = "AUTH_FAILED"
             /\ sock[c] = "closed"
             /\ hist[c].inserts = 0
             /\ c \notin clients

\* C2: in every reachable state the registry holds at most MAX_CLIENTS entries
C2_Capacity == Cardinality(clients) <= MAX_CLIENTS

\* C2, a case of it: the registry is full and one more connection has arrived
C2_Witness ==
    /\ Cardinality(clients) = MAX_CLIENTS
    /\ \E c \in Conns : sock[c] # "none" /\ c \notin clients /\ hist[c].full

\* C3: on a connection accepted while the registry was full nothing but
\* SERVER_FULL is written, and once it was written the socket is closed; no
\* credential is read from it, it never enters the registry, and no session
\* thread is started for it.  When the write of SERVER_FULL raises, the socket
\* is released unclosed.
C3_ServerFull ==
    \A c \in Conns : hist[c].full =>
        /\ \A w \in wire : w.to = c =>
                /\ w.msg = [kind |-> "SERVER_FULL", about |-> 0, sender |-> <<>>,
                            body |-> <<>>]
                /\ sock[c] = "closed"
        /\ sock[c] \in {"closed", "dropped"}
        /\ ~hist[c].credread
        /\ credOf[c] = NoCred
        /\ hist[c].inserts = 0
        /\ c \notin clients
        /\ pc[c] = "none"

\* C3, a case of it: SERVER_FULL was just written to a connection that came
\* when the registry was full, and its socket is closed
C3_Witness ==
    \E w \in wire : /\ w.to \in Conns
                    /\ hist[w.to].full
                    /\ w.msg.kind = "SERVER_FULL"
                    /\ sock[w.to] = "closed"
                    /\ Cardinality(clients) = MAX_CLIENTS

(***************************************************************************)
(* Properties of broadcast_message.                                        *)
(***************************************************************************)
\* C4 as stated, for a pass that an exception has ended: every connection
\* other than the excluded one that was in the registry when the call was made,
\* and that still is registered, active and open, was written the message
C4_AsStated ==
    \A t \in Threads : frame[t].aborted =>
        \A r \in frame[t].atCall \ {frame[t].excl} :
            (r \in clients /\ is_active[r] /\ sock[r] = "open")
                => r \in frame[t].delivered

\* C5: a chat line of connection A is written only to registered, active
\* connections other than A, with A's display name as sender; the broadcast
\* that carries it excludes A
C5_NoEcho ==
    /\ \A w \in wire : w.msg.kind = "chat" =>
            /\ w.to \in Conns
            /\ w.to # w.msg.about
            /\ w.to \in clients
            /\ is_active[w.to]
            /\ w.msg.sender = nickname[w.msg.about]
    /\ \A t \in Threads : frame[t].msg.kind = "chat" =>
            /\ frame[t].msg.about = t
            /\ frame[t].excl = t
            /\ t \notin frame[t].delivered

\* C5, a case of it: a chat line was just written to another connection
C5_Witness ==
    \E w \in wire : /\ w.msg.kind = "chat"
                    /\ w.msg.body = <<"hi">>
                    /\ w.to \in Conns \ {w.msg.about}

\* C6: once the teardown of a connection has removed it and closed it (the
\* departure broadcast running, or the thread ended), the registry does not
\* contain the connection, in that state and in every later one
C6_Removed ==
    \A c \in Conns :
        (\/ pc[c] \in {"done", "crashed"}
         \/ (pc[c] \in {"b_lock", "b_iter", "b_stuck", "b_prune"} /\ frame[c].msg.kind = "leave"))
            => c \notin clients /\ sock[c] = "closed" /\ hist[c].removals = 1

\* C6, a case of it: the teardown of an admitted connection has finished
\* while another connection is registered
C6_Witness ==
    \E c \in Conns : pc[c] = "done" /\ hist[c].inserts = 1 /\ clients # {}

\* C7 as stated: for every admitted connection at most one departure notice is
\* broadcast and at most one removal takes effect, and exactly one of each
\* once its teardown has finished
C7_AsStated ==
    \A c \in Conns : hist[c].inserts > 0 =>
        /\ hist[c].departs <= 1
        /\ hist[c].removals <= 1
        /\ pc[c] \in {"done", "crashed"} => hist[c].departs = 1 /\ hist[c].removals = 1

(***************************************************************************)
(* Properties of kick_user.  A step is a /kick <u> when the console is told *)
(* of its outcome for u.                                                   *)
(***************************************************************************)
\* C8: a /kick <u> issued while a registered, active connection is named u
\* reports success, clears the active flag of the first such connection in
\* registry order and of no other, writes to no client but that one (the kick
\* notification), leaves the registry and the sockets as they are, and calls
\* the departure broadcast with that connection excluded; that broadcast
\* writes to no connection it is about, and when its pass over the registry
\* ends it has not been cut short and has written to, or found inactive or
\* unwritable, every other connection registered at the call
C8_KickPresent ==
    [][ /\ \A u \in KickNames :
            LET told == { w \in wire' : w.to = Stdout /\ w.msg.body = u
                              /\ w.msg.kind \in {"kick_done", "kick_not_found"} }
                hits == { i \in 1 .. Len(entries) :
                              /\ entries[i] \in clients
                              /\ nickname[entries[i]] = u
                              /\ is_active[entries[i]] }
                id == entries[CHOOSE i \in hits : \A j \in hits : i <= j]
            IN  (told # {} /\ hits # {}) =>
                    /\ \A w \in told : w.msg.kind = "kick_done"
                    /\ ~is_active'[id]
                    /\ \A c \in Conns \ {id} : is_active'[c] = is_active[c]
                    /\ \A w \in wire' \ told : w.to = id /\ w.msg.kind = "kicked"
                    /\ (sock[id] = "open" /\ used' = used + 1)
                            => \E w \in wire' : w.to = id /\ w.msg.kind = "kicked"
                    /\ UNCHANGED << clients, entries, sock, nickname >>
                    /\ pc'[Console] = "b_lock"
                    /\ frame'[Console].msg.kind = "kick_notice"
                    /\ frame'[Console].msg.about = id
                    /\ frame'[Console].excl = id
                    /\ frame'[Console].atCall = clients
        /\ \A w \in wire' : w.msg.kind = "kick_notice" => w.to # w.msg.about
        /\ ( /\ pc[Console] = "b_iter"
             /\ frame[Console].msg.kind = "kick_notice"
             /\ pc'[Console] \notin {"b_iter", "b_stuck"} )
                => /\ ~frame'[Console].aborted
                   /\ \A r \in frame[Console].atCall \ {frame[Console].excl} :
                        \/ r \in frame[Console].delivered
                        \/ \E i \in 1 .. Len(frame[Console].todo) :
                                frame[Console].todo[i] = r
      ]_vars

\* C8, a case of it: a connection was just kicked while another one of the
\* same name is registered
C8_Witness ==
    /\ \E w \in wire : w.to = Stdout /\ w.msg.kind = "kick_done"
    /\ \E c, d \in clients : /\ c # d
                             /\ nickname[c] = nickname[d]
                             /\ ~is_active[c]
                             /\ is_active[d]
                             /\ frame[Console].excl = c

\* C9: a /kick <u> issued while no registered, active connection is named u
\* reports failure to the console, writes to no client, and leaves the
\* registry, the flags, the sockets, the locks and the threads' broadcasts as
\* they are
C9_KickAbsent ==
    [][ \A u \in KickNames :
            LET told == { w \in wire' : w.to = Stdout /\ w.msg.body = u
                              /\ w.msg.kind \in {"kick_done", "kick_not_found"} }
                named == { c \in clients : nickname[c] = u /\ is_active[c] }
            IN  (told # {} /\ named = {}) =>
                    /\ \A w \in told : w.msg.kind = "kick_not_found"
                    /\ wire' = told
                    /\ UNCHANGED << clients, entries, is_active, sock, nickname,
                                    message_lock, clients_lock, is_running,
                                    server_socket, frame, hist >>
      ]_vars

\* C9, a case of it: the console was just told that nobody of that name was
\* found, while connections are registered
C9_Witness ==
    /\ \E w \in wire : w.to = Stdout /\ w.msg.kind = "kick_not_found"
    /\ \E c \in clients : is_active[c]

(***************************************************************************)
(* Properties of the client.                                               *)
(***************************************************************************)
\* C10 as stated: after the client has turned down a message of more than
\* MAX_MESSAGE_SIZE characters, the interactive loop is still running and the
\* socket is open
C10_AsStated ==
    client.last = "too_long" => client.pc = "input" /\ client.client_socket = "open"

\* C11 as stated: a connection is a key of the registry exactly when its
\* handshake has completed (it was inserted) and it has not been torn down:
\* its session thread has not yet run the teardown and its socket is open
C11_AsStated ==
    \A c \in Conns :
        c \in clients <=>
            /\ hist[c].inserts = 1
            /\ pc[c] \notin {"none", "done", "crashed"}
            /\ ~(pc[c] \in {"b_lock", "b_iter", "b_stuck", "b_prune"}
                    /\ frame[c].msg.kind = "leave")
            /\ sock[c] = "open"

\* C12 as stated: no step inserts into or removes from the registry while a
\* thread is in the middle of an iteration over it, be it the fan-out of a
\* broadcast or the roster listing at join
C12_AsStated ==
    [][ clients' # clients =>
            \A t \in Threads : pc[t] \notin {"b_iter", "b_stuck", "roster_iter"}
      ]_vars

\* C13 as stated: a thread that holds clients_lock is not writing to a client
\* socket: the messages that only the console writes on its kick path (the
\* notification to the kicked connection, the kick notice to the others) are
\* not written while the console holds clients_lock, and no thread that holds
\* clients_lock is inside the fan-out loop of a broadcast
C13_AsStated ==
    /\ \A t \in Threads : t \in clients_lock => pc[t] \notin {"b_iter", "b_stuck"}
    /\ Console \in clients_lock =>
            \A w \in wire : w.to \in Conns => w.msg.kind \notin {"kicked", "kick_notice"}

\* C14 as stated: while the write of one thread to a connection is in progress
\* (the send of a fan-out has not returned), no other thread writes to that
\* connection
C14_AsStated ==
    [][ \A t \in Threads :
            (pc[t] = "b_stuck" /\ pc'[t] = "b_stuck")
                => \A w \in wire' : w.to # frame[t].at
      ]_vars

\* C15 as stated: a write to one recipient that does not return (the recipient
\* stays connected and does not read) holds up nobody else: the thread of
\* another connection that waits to start the fan-out of its broadcast finds
\* message_lock free
C15_AsStated ==
    \A t, s \in Threads :
        (/\ pc[t] = "b_stuck"
         /\ sock[frame[t].at] = "open"
         /\ s # frame[t].at
         /\ pc[s] = "b_lock")
            => message_lock = {}

C17_AsStated ==
    \A c \in Conns :
        \A i \in 1 .. Len(hist[c].log) :
            LET e == hist[c].log[i]
            IN  (/\ e.ev = "nick"
                 /\ e.data # <<>>
                 /\ Len(e.data) <= 20
                 /\ \A k \in 1 .. Len(e.data) : e.data[k] \notin {WS, "/"}
                 /\ hist[c].inserts = 1)
                    => nickname[c] = e.data

\* C18: when the nickname read from a connection is empty, longer than 20 or
\* holds a character that is no letter, digit or underscore, or when the
\* nickname step broke off with an error, the handshake has succeeded all the
\* same: the connection was inserted into the registry, and its display name
\* is the generated placeholder, which is not empty
C18_PlaceholderAdmitted ==
    \A c \in Conns :
        LET l == hist[c].log
            Bad(d) == \/ Strip(d) = <<>>
                      \/ Len(Strip(d)) > 20
                      \/ \E k \in 1 .. Len(Strip(d)) : Strip(d)[k] \in {WS, "/"}
        IN  (\E i \in 1 .. Len(l) : \/ (l[i].ev = "nick" /\ Bad(l[i].data))
                                     \/ (l[i].ev = "fault" /\ i > 3))
                => /\ l[3].ev = "AUTH_SUCCESS"
                   /\ l[Len(l)].ev = "insert"
                   /\ hist[c].inserts = 1
                   /\ (c \in clients \/ hist[c].removals = 1)
                   /\ nickname[c] = Placeholder
                   /\ nickname[c] # <<>>
                   /\ pc[c] # "none"

\* C18, a case of it: a registered connection had submitted a nickname of more
\* than 20 characters
C18_Witness ==
    \E c \in clients :
        /\ \E i \in 1 .. Len(hist[c].log) :
                hist[c].log[i].ev = "nick" /\ Len(hist[c].log[i].data) > 20
        /\ nickname[c] = Placeholder
        /\ is_active[c]

\* C19 as stated: while the acceptor waits for the nickname of a connection,
\* the read is bounded by the timeout of the credential read (30 seconds)
C19_AsStated ==
    acc.pc = "nick" => acc.timeout = AuthTimeout

\* C20: when the credential step of a handshake broke off with a timeout or a
\* transport error, the handshake has failed: nothing follows the error on
\* that connection (no second request or read, no success answer, no nickname
\* step), its socket is closed, it was never inserted into the registry and no
\* session thread was started for it
C20_CredentialFault ==
    \A c \in Conns :
        LET l == hist[c].log
            At(name) == { i \in 1 .. Len(l) : l[i].ev = name }
        IN  (At("fault") \cap {1, 2, 3} # {})
                => /\ l[Len(l)].ev = "fault"
                   /\ At("AUTH_SUCCESS") \cup At("NICKNAME_REQUEST") \cup At("nick")
                         \cup At("insert") = {}
                   /\ Cardinality(At("PASSWORD_REQUEST")) <= 1
                   /\ Cardinality(At("cred")) <= 1
                   /\ Cardinality(At("fault")) = 1
                   /\ acc.c # c
                   /\ sock[c] = "closed"
                   /\ c \notin clients
                   /\ hist[c].inserts = 0
                   /\ pc[c] = "none"

\* C20, a case of it: the credential read of one connection timed out, and a
\* connection accepted after it is registered
C20_Witness ==
    \E c, d \in Conns :
        /\ Len(hist[c].log) = 2
        /\ hist[c].log[1].ev = "PASSWORD_REQUEST"
        /\ hist[c].log[2].ev = "fault"
        /\ sock[c] = "closed"
        /\ c < d
        /\ d \in clients

\* C21 as stated: a fault of one connection's handshake, the failed write of
\* the SERVER_FULL marker included, does not end the acceptor: while the server
\* is running the acceptor thread has not left its loop
C21_AsStated ==
    is_running => acc.pc # "exited"

\* C22 as stated: when the session thread of an active connection has read an
\* unrecognized command or a line that does not decode, it has written a reply
\* to that connection, and the connection is still active, registered and
\* about to read its next line
C22_AsStated ==
    \A w \in wire :
        (/\ w.to = Inbox
         /\ \/ ~(\A i \in 1 .. Len(w.msg.body) : w.msg.body[i] # BadByte)
            \/ /\ StartsWithSlash(Strip(w.msg.body))
               /\ Strip(w.msg.body) \notin { <<"/", "quit">>, <<"/", "help">>,
                                            <<"/", "users">>, <<"/", "time">> })
            => /\ \E x \in wire : x.to = w.msg.about
               /\ is_active[w.msg.about]
               /\ w.msg.about \in clients
               /\ pc[w.msg.about] = "recv"

\* C23 as stated: once shutdown has cleared the running flag, a session thread
\* that is blocked in its read is released by a read timeout, after which it
\* re-checks the flag: its socket has a timeout
C23_AsStated ==
    \A c \in Conns :
        (~is_running /\ pc[c] = "recv") => hist[c].timeout # NoTimeout

\* C24: what the client does with a typed line, after stripping it: a line that
\* spells, in any case, /quit, /exit or /q makes the client send at most the
\* literal /quit and leave the input loop; one that spells /help, /clear, /cls
\* or /time is handled by the client and nothing is sent; an empty line sends
\* nothing; every other line is sent as stripped, and to the letter, unless
\* it is longer than MAX_MESSAGE_SIZE, the client is not connected or the
\* send raises, in which cases nothing is sent
C24_Directives ==
    [][ client'.typed = client.typed + 1 =>
            LET u == [client'.line EXCEPT !.pad = 0]
                quit == [cmd |-> "/quit", body |-> 5, pad |-> 0, upper |-> FALSE]
            IN  IF u.body = 0 THEN client'.onwire = client.onwire
                ELSE IF u.cmd \in {"/quit", "/exit", "/q"}
                THEN /\ client'.onwire \in {client.onwire, Append(client.onwire, quit)}
                     /\ client'.pc = "disconnect"
                ELSE IF u.cmd \in {"/help", "/clear", "/cls", "/time"}
                THEN client'.onwire = client.onwire /\ client'.last = "none"
                ELSE /\ client'.onwire \in {client.onwire, Append(client.onwire, u)}
                     /\ (client'.onwire # client.onwire) <=> (client'.last = "sent")
                     /\ (/\ u.body <= MAX_MESSAGE_SIZE
                         /\ client.is_connected
                         /\ client'.last # "failed")
                            => client'.onwire = Append(client.onwire, u)
      ]_vars

\* C24, a case of it: /HELP was typed after a text line, and only the text
\* line went to the server
C24_Witness ==
    /\ client.line = [cmd |-> "/help", body |-> 5, pad |-> 0, upper |-> TRUE]
    /\ client.pc = "input"
    /\ client.typed = 2
    /\ Len(client.onwire) = 1
    /\ client.onwire[1].cmd = "text"

\* C24 as stated: a typed line that is /quit, /exit, /q, /help, /clear or /time
\* puts nothing on the wire, and every other non-empty line (of a connected
\* client, within the length limit, the send not failing) goes on the wire
\* exactly as typed
C24_AsStated ==
    [][ (/\ client'.typed = client.typed + 1
         /\ client.is_connected
         /\ client'.last \notin {"failed", "too_long"})
            => LET typed == client'.line
               IN  IF \E name \in {"/quit", "/exit", "/q", "/help", "/clear", "/time"} :
                        typed = [cmd |-> name, body |-> typed.body, pad |-> 0,
                                 upper |-> FALSE]
                   THEN client'.onwire = client.onwire
                   ELSE typed.body > 0 => client'.onwire = Append(client.onwire, typed)
      ]_vars

C26_AsStated ==
    (client.heard \in {"garbled", "oserror"} /\ client.is_running)
        => client.rpc = "recv" /\ client.is_connected

\* C27: after a send that raised, the client is marked disconnected and has
\* left the input loop; it did not crash: it is about to run disconnect, which
\* nothing holds up, or has run it and ended with the socket closed
C27_FailedSend ==
    client.last = "failed" =>
        /\ ~client.is_connected
        /\ client.pc \in {"disconnect", "exited"}
        /\ client.why \in {"send", "quit", "interrupt", "eof"}
        /\ client.pc = "disconnect" => ENABLED ClientDisconnect
        /\ client.pc = "exited" =>
              /\ ~client.is_running
              /\ client.client_socket = "closed"
              /\ client.did # <<>>

\* C27, a case of it: the send of a typed text line raised, and run has gone
\* through disconnect
C27_Witness ==
    /\ client.last = "failed"
    /\ client.why = "send"
    /\ client.line.cmd = "text"
    /\ client.pc = "exited"

\* C28: when the session thread of a connection has read /quit, it has written
\* to that connection only, and nothing but the farewell; the connection is
\* marked inactive and its thread is past the loop, at the teardown; and a
\* thread at the teardown reads no further line: its next step removes the
\* connection from the registry and closes the socket
C28_Quit ==
    [][ /\ \A w \in wire' :
              (w.to = Inbox /\ Strip(w.msg.body) = <<"/", "quit">>)
                  => /\ \A x \in wire' : x.to \in Conns =>
                            /\ x.to = w.msg.about
                            /\ x.msg.kind = "farewell"
                            /\ x.msg.about = w.msg.about
                     /\ ~is_active'[w.msg.about]
                     /\ \A d \in Conns \ {w.msg.about} : is_active'[d] = is_active[d]
                     /\ pc'[w.msg.about] = "t_remove"
                     /\ UNCHANGED << clients, sock >>
        /\ \A c \in Conns :
              (pc[c] = "t_remove" /\ pc'[c] # "t_remove")
                  => /\ c \notin clients'
                     /\ sock'[c] = "closed"
                     /\ hist'[c].departs = hist[c].departs + 1
                     /\ \A w \in wire' : w.to # Inbox
      ]_vars

\* C28, a case of it: a connection has just sent /quit with another one
\* registered, and got the farewell
C28_Witness ==
    \E w, x \in wire :
        /\ w.to = Inbox
        /\ w.msg.body = <<"/", "quit">>
        /\ x.to = w.msg.about
        /\ x.msg.kind = "farewell"
        /\ clients \ {x.to} # {}
        /\ pc[x.to] = "t_remove"

\* C29: handling /help, /time or an unknown command of connection A writes
\* the matching reply to A and to nobody else and leaves the registry and the
\* active flag of every other connection as they were; so does /users, whose
\* reply lists the display names of the registry entries that are active when
\* the list is made, in registry order, and of no others
C29_RepliesToIssuer ==
    [][ /\ \A w \in wire' :
              (/\ w.to = Inbox
               /\ \A i \in 1 .. Len(w.msg.body) : w.msg.body[i] # BadByte
               /\ StartsWithSlash(Strip(w.msg.body))
               /\ Strip(w.msg.body) # <<"/", "quit">>)
                  => /\ \A x \in wire' : x.to \in Conns =>
                            /\ x.to = w.msg.about
                            /\ x.msg.kind =
                                  (CASE Strip(w.msg.body) = <<"/", "help">> -> "help"
                                     [] Strip(w.msg.body) = <<"/", "time">> -> "time"
                                     [] OTHER -> "unknown")
                     /\ Strip(w.msg.body) = <<"/", "users">>
                            => /\ \A x \in wire' : x.to = Inbox
                               /\ pc'[w.msg.about] = "cmd_users"
                     /\ \A d \in Conns \ {w.msg.about} : is_active'[d] = is_active[d]
                     /\ UNCHANGED << clients, entries, sock, nickname, frame >>
        /\ \A c \in Conns :
              (pc[c] = "cmd_users" /\ pc'[c] # "cmd_users")
                  => LET live == { i \in 1 .. Len(entries) :
                                       entries[i] \in clients /\ is_active[entries[i]] }
                         RECURSIVE Join(_)
                         Join(i) == IF i > Len(entries) THEN <<>>
                                    ELSE (IF i \in live THEN nickname[entries[i]]
                                          ELSE <<>>) \o Join(i + 1)
                     IN  /\ \A x \in wire' :
                               /\ x.to = c
                               /\ x.msg.kind = "users"
                               /\ x.msg.body = Join(1)
                         /\ \A d \in Conns \ {c} : is_active'[d] = is_active[d]
                         /\ UNCHANGED << clients, entries, sock, nickname, frame >>
      ]_vars

\* C29, a case of it: with two connections registered, one has just been sent
\* the reply to its /users, which names both
C29_Witness ==
    \E x \in wire :
        /\ x.msg.kind = "users"
        /\ x.to \in clients
        /\ Cardinality(clients) = 2
        /\ x.msg.body = nickname[1] \o nickname[2]
        /\ pc[x.to] = "recv"

\* C30 as stated: a session is past its registry insertion when its join notice
\* or roster is written; the join notice is written to registered connections
\* other than the joiner, the roster to the joiner only; and a session that has
\* been admitted gets through its join notice and its roster to the read loop:
\* while the server runs and the connection is active, neither of the two ends
\* the session
C30_AsStated ==
    [][ /\ \A w \in wire' :
              /\ w.msg.kind = "welcome"
                    => /\ w.to # w.msg.about
                       /\ w.to \in clients
                       /\ hist[w.msg.about].inserts = 1
              /\ w.msg.kind = "roster"
                    => /\ w.to = w.msg.about
                       /\ hist[w.to].inserts = 1
        /\ \A c \in Conns :
              (/\ \/ pc[c] \in {"welcome", "roster", "roster_iter"}
                  \/ /\ pc[c] \in {"b_lock", "b_iter", "b_stuck", "b_prune"}
                     /\ frame[c].msg.kind = "welcome"
               /\ is_running' /\ is_active'[c] /\ sock'[c] = "open")
                  => pc'[c] # "t_remove"
      ]_vars

(***************************************************************************)
(* Properties of the pruning of a broadcast pass.  A step is thread t's    *)
(* when it changes pc[t] or frame[t].                                      *)
(***************************************************************************)
\* C31: when a broadcast call returns (no exception), every recipient whose
\* write failed in that pass has its active flag false and is not in the
\* registry, and no step of the pass, the returning one included, removes a
\* recipient whose write succeeded or changes its flag
C31_Pruned ==
    [][ \A t \in Threads :
          (/\ pc[t] \in {"b_iter", "b_stuck", "b_prune"}
           /\ (pc'[t] # pc[t] \/ frame'[t] # frame[t]))
              => /\ \A id \in frame[t].delivered \cup frame'[t].delivered :
                        /\ id \in clients => id \in clients'
                        /\ is_active'[id] = is_active[id]
                 /\ (/\ pc'[t] \notin {"b_iter", "b_stuck", "b_prune"}
                     /\ ~frame'[t].aborted)
                        => \A id \in frame[t].failed :
                              ~is_active'[id] /\ id \notin clients'
      ]_vars

\* C31, a case of it: the write of a broadcast to an open connection failed,
\* the pass has pruned it and returned while its session thread still waits in
\* recv, and the writer of the pass is still registered
C31_Witness ==
    /\ is_running
    /\ message_lock = {}
    /\ \E id \in Conns :
          /\ pc[id] = "recv"
          /\ sock[id] = "open"
          /\ ~is_active[id]
          /\ id \notin clients
          /\ hist[id].removals = 1
          /\ hist[id].departs = 0
          /\ clients # {}

(***************************************************************************)
(* Properties of the comparison of the credential.                         *)
(***************************************************************************)
\* C32 (as the code has it): the answer written to a connection whose
\* credential was read is AUTH_SUCCESS only when the credential with its
\* leading and trailing blanks stripped equals the room secret, and AUTH_FAILED
\* only when the stripped credential differs from it; a credential that differs
\* from the secret by surrounding blanks alone is never answered AUTH_FAILED
C32_StrippedCompare ==
    \A c \in Conns : hist[c].credread =>
        /\ hist[c].answer = "AUTH_SUCCESS" => Strip(credOf[c]) = room_password
        /\ hist[c].answer = "AUTH_FAILED" => Strip(credOf[c]) # room_password
        /\ \A w \in wire :
              (w.to = c /\ w.msg.kind \in {"AUTH_SUCCESS", "AUTH_FAILED"})
                  => w.msg.kind = hist[c].answer

\* C32, a case of it: AUTH_SUCCESS was just written to a connection whose
\* credential is the secret followed by a blank
C32_Witness ==
    \E w \in wire : /\ w.to \in Conns
                    /\ w.msg.kind = "AUTH_SUCCESS"
                    /\ credOf[w.to] # room_password
                    /\ LStrip(credOf[w.to]) = credOf[w.to]

\* C32 as stated: a credential that is not the secret character for character
\* is never answered AUTH_SUCCESS
C32_AsStated ==
    \A c \in Conns :
        (hist[c].credread /\ credOf[c] # room_password)
            => hist[c].answer # "AUTH_SUCCESS"

\* C33 as stated: in every round of a broadcast pass that has dealt with an
\* active recipient, either the complete formatted line was written to that
\* recipient, or nothing the recipient can take for the line was written, its
\* active flag is cleared and it is on the list of entries to remove
C33_AsStated ==
    [][ \A t \in Threads :
          (/\ pc[t] = "b_iter"
           /\ pc'[t] = "b_iter"
           /\ frame'[t].pos # frame[t].pos
           /\ entries[frame'[t].pos] # frame[t].excl
           /\ is_active[entries[frame'[t].pos]])
              => LET r == entries[frame'[t].pos]
                 IN  \/ wire' = {[to |-> r, msg |-> frame[t].msg]}
                     \/ /\ wire' = {}
                        /\ ~is_active'[r]
                        /\ \E i \in 1 .. Len(frame'[t].todo) : frame'[t].todo[i] = r
      ]_vars

(***************************************************************************)
(* Properties of the client's receive thread.                              *)
(***************************************************************************)
\* C34 as stated: current_input_buffer is written by the interactive input
\* loop alone: every step that changes it is a step in which a line was typed
C34_AsStated ==
    [][ client'.current_input_buffer # client.current_input_buffer
            => /\ client.pc = "input"
               /\ client'.typed = client.typed + 1
      ]_vars

\* C35 as stated: once the receive thread has found the peer gone (empty read
\* or reset) the client ends (the input loop is left and disconnect has run),
\* whatever the user does or does not do at the prompt
C35_AsStated ==
    (client.heard \in {"eof", "reset"} /\ ~client.is_connected)
        ~> (client.pc = "exited")

(***************************************************************************)
(* Properties of the two locks.                                            *)
(***************************************************************************)
\* C36 as stated: no thread waits for a lock that it holds itself, and no two
\* threads wait each for a lock the other holds.  A thread at b_lock waits for
\* message_lock; one at b_prune, t_remove, cmd_users or s_close waits for
\* clients_lock.
C36_AsStated ==
    LET waits(x) == IF pc[x] = "b_lock" THEN message_lock
                    ELSE IF pc[x] \in {"b_prune", "t_remove", "cmd_users", "s_close"}
                    THEN clients_lock
                    ELSE {}
    IN  \A t \in Threads :
            /\ t \notin waits(t)
            /\ \A u \in waits(t) : t \notin waits(u)

(***************************************************************************)
(* Properties of the active flag.                                          *)
(***************************************************************************)
\* C37 as stated: a chat line that is received from a connection whose active
\* flag is already false, while another connection is registered and active,
\* is not handed to broadcast_message
C37_AsStated ==
    [][ \A w \in wire' :
          (/\ w.to = Inbox
           /\ ~is_active[w.msg.about]
           /\ \E d \in clients \ {w.msg.about} : is_active[d])
              => frame'[w.msg.about].msg.kind # "chat"
      ]_vars

(***************************************************************************)
(* Properties of the capacity.                                             *)
(***************************************************************************)
\* C38 as stated: at most MAX_CLIENTS admitted connections have a session
\* thread that waits for the next line in its loop and a socket that is open
C38_AsStated ==
    Cardinality({ c \in Conns : /\ hist[c].inserts = 1
                                /\ pc[c] = "recv"
                                /\ sock[c] = "open" }) <= MAX_CLIENTS

(***************************************************************************)
(* Properties of shutdown.                                                 *)
(***************************************************************************)
\* C39 as stated: once a call of shutdown has completed (the registry cleared
\* and the listening socket closed) no step puts a connection into the
\* registry or starts a session thread
C39_AsStated ==
    [][ server_socket = "closed"
            => /\ clients' = {}
               /\ \A c \in Conns : pc[c] = "none" => pc'[c] = "none"
      ]_vars

(***************************************************************************)
(* Properties of connect_to_server.                                        *)
(***************************************************************************)
\* C40: connect_to_server makes at most RETRY_ATTEMPTS attempts.  While no
\* attempt has succeeded, every socket made so far has been closed,
\* client_socket is None and is_connected is false, and the call goes on to a
\* further attempt unless RETRY_ATTEMPTS were made.  The first attempt that
\* succeeds ends the call with is_connected true and client_socket the
\* connected socket, the sockets of all earlier attempts closed, and no attempt
\* follows it.
C40_Connect ==
    /\ client.attempt <= RETRY_ATTEMPTS
    /\ IF client.retry_closed = client.attempt
       THEN /\ ~client.is_connected
            /\ client.client_socket = "none"
            /\ client.pc \in {"connect", "disconnect", "exited"}
            /\ client.pc = "connect" <=> client.attempt < RETRY_ATTEMPTS
       ELSE /\ client.retry_closed = client.attempt - 1
            /\ client.pc # "connect"
            /\ client.pc = "auth" => /\ client.is_connected
                                     /\ client.client_socket = "open"

\* C40, a case of it: the third attempt has failed and connect_to_server has
\* returned failure
C40_Witness ==
    /\ client.attempt = RETRY_ATTEMPTS
    /\ client.retry_closed = RETRY_ATTEMPTS
    /\ client.pc = "disconnect"
    /\ client.client_socket = "none"
====
